---- MODULE Spec2Model ----
(***************************************************************************)
(* Stereo Merger (src/src/toolbox/tools/stereo_merger.py): the background  *)
(* worker that scans a folder for <key>.L.<ext> / <key>.R.<ext> files,     *)
(* merges every complete pair into <key><ext> and optionally unlinks the   *)
(* two sources.                                                            *)
(*                                                                         *)
(* A file name is a sequence of one-character strings, so that suffix,     *)
(* endswith and replace are computed character by character as Python      *)
(* computes them.  The folder is a function from the names present in it   *)
(* to what each entry holds.                                               *)
(***************************************************************************)
EXTENDS Integers, Sequences, FiniteSets, Bags, TLC

VARIABLES
    fs,              \* the source folder: name -> entry (a file's audio, or a subdirectory)
    initial,         \* the folder as it was when the worker started (never changes)
    delete_sources,  \* Switch "stereo-delete": self.delete_sources.value
    pc,              \* position of the worker thread in _worker
    pairs,           \* the list _collect_pairs returned
    index,           \* loop variable of "for index, (key, left, right, ext) in enumerate(pairs, 1)"
    exc,             \* the exception the current pair's try block raised ("" if none)
    del_flag,        \* what "if self.delete_sources.value" evaluated to for the current pair
    raised,          \* per pair, the exception its try block raised ("" if none, "-" not yet run)
    log_lines,       \* self._log_lines
    progress,        \* self.progress: <<progress, total>>
    status,          \* self.status
    emitted,         \* every line the worker has passed to self._log, in order
    cancelled,       \* the screen was popped, which cancels its workers (Worker.is_cancelled)
    merge_pc,        \* position of one call of _merge_to_stereo on a pair of .wav files
    left_wav,        \* the file at left_path, byte by byte
    right_wav,       \* the file at right_path, byte by byte
    left_seg,        \* left = AudioSegment.from_file(left_path)
    right_seg,       \* right = AudioSegment.from_file(right_path)
    stereo_seg,      \* stereo = AudioSegment.from_mono_audiosegments(left, right)
    output_wav,      \* the file stereo.export wrote at output_path
    deps,            \* which of pydub and ffmpeg are installed
    others,          \* the worker threads of earlier presses of Start that still run (a bag)
    launched,        \* how many worker threads Start has launched
    delete_at_start  \* the switch as it was when Start launched the worker

\* the state of one call of _merge_to_stereo followed byte by byte
mergevars == <<merge_pc, left_wav, right_wav, left_seg, right_seg, stereo_seg, output_wav>>

\* the state of the screen and of its worker thread
workervars == <<fs, initial, delete_sources, pc, pairs, index, exc, del_flag, raised,
                log_lines, progress, status, emitted, cancelled>>

\* the Start button's inputs and the workers it has launched
startvars == <<deps, others, launched, delete_at_start>>

vars == <<workervars, mergevars, startvars>>

----------------------------------------------------------------------------
(* Strings *)

UpperChars == <<"A","B","C","D","E","F","G","H","I","J","K","L","M",
                "N","O","P","Q","R","S","T","U","V","W","X","Y","Z">>
LowerChars == <<"a","b","c","d","e","f","g","h","i","j","k","l","m",
                "n","o","p","q","r","s","t","u","v","w","x","y","z">>

\* str.lower() on one character
LowerChar(c) ==
    IF \E i \in DOMAIN UpperChars : UpperChars[i] = c
    THEN LowerChars[CHOOSE i \in DOMAIN UpperChars : UpperChars[i] = c]
    ELSE c

\* str.lower()
Lower(s) == [i \in 1..Len(s) |-> LowerChar(s[i])]

\* str.rfind("."), 0-based, -1 when there is no dot
RFindDot(s) ==
    LET dots == {i \in 1..Len(s) : s[i] = "."}
    IN  IF dots = {} THEN -1
        ELSE (CHOOSE i \in dots : \A j \in dots : j <= i) - 1

\* pathlib.PurePath.suffix
Suffix(name) ==
    LET i == RFindDot(name)
    IN  IF 0 < i /\ i < Len(name) - 1
        THEN SubSeq(name, i + 1, Len(name))
        ELSE <<>>

\* str.endswith
EndsWith(s, t) ==
    /\ Len(t) <= Len(s)
    /\ SubSeq(s, Len(s) - Len(t) + 1, Len(s)) = t

\* str.replace(pat, ""): every non-overlapping occurrence, leftmost first
RECURSIVE Replace(_, _)
Replace(s, pat) ==
    IF Len(s) < Len(pat) THEN s
    ELSE IF SubSeq(s, 1, Len(pat)) = pat
         THEN Replace(SubSeq(s, Len(pat) + 1, Len(s)), pat)
         ELSE <<Head(s)>> \o Replace(Tail(s), pat)

----------------------------------------------------------------------------
(* Folder entries *)

\* an audio file: channels, sample rate, bytes per sample and frames as stored
Audio(ch, rate, width, frames) ==
    [kind |-> "audio", ch |-> ch, rate |-> rate, width |-> width, frames |-> frames]

\* a file AudioSegment.from_file cannot decode
Corrupt == [kind |-> "corrupt", ch |-> 0, rate |-> 0, width |-> 0, frames |-> 0]

\* what export leaves behind when it fails after opening the output ("wb+")
Partial == [kind |-> "partial", ch |-> 0, rate |-> 0, width |-> 0, frames |-> 0]

\* a subdirectory of the source folder
Directory == [kind |-> "dir", ch |-> 0, rate |-> 0, width |-> 0, frames |-> 0]

\* Path.is_file()
IsFile(f, name) == name \in DOMAIN f /\ f[name].kind # "dir"

EXTENSIONS ==
    { <<".","w","a","v">>, <<".","f","l","a","c">>, <<".","m","p","3">>,
      <<".","a","i","f","f">>, <<".","a","i","f">>, <<".","m","4","a">>,
      <<".","o","g","g">>, <<".","o","p","u","s">> }

NoPath == <<>>

\* no file (None)
NoWav == [riff_size |-> 0, ch |-> 0, rate |-> 0, width |-> 0, data_size |-> 0, data |-> <<>>]

\* no segment (None)
NoSeg == [ch |-> 0, rate |-> 0, width |-> 0, data |-> <<>>]

----------------------------------------------------------------------------
(* File names *)

N_aL    == <<"a",".","L",".","w","a","v">>
N_aR    == <<"a",".","R",".","w","a","v">>
N_aLL   == <<"a",".","L",".","L",".","w","a","v">>
N_aLR   == <<"a",".","L",".","R",".","w","a","v">>
N_a     == <<"a",".","w","a","v">>
N_aLwL  == <<"a",".","L",".","w","a","v",".","L",".","w","a","v">>
N_al    == <<"a",".","l",".","w","a","v">>
N_aLW   == <<"a",".","L",".","W","A","V">>
N_aRmp3 == <<"a",".","R",".","m","p","3">>
N_aLmp3 == <<"a",".","L",".","m","p","3">>
N_aLtxt == <<"a",".","L",".","t","x","t">>

\* the names a folder of the merge runs is drawn from
BatchNames == {N_aL, N_aR, N_aLL, N_aLR, N_a}

\* the names a folder of the single-pair runs is drawn from
PairNames == {N_aL, N_aR, N_a}

\* the names a folder of the discovery runs is drawn from
ScanNames == BatchNames \cup {N_aLwL, N_al, N_aLW, N_aRmp3, N_aLmp3, N_aLtxt}

----------------------------------------------------------------------------
(* _collect_pairs *)

\* grouped.setdefault((key, ext), {})[ch] = path
SetDefault(grouped, key, ext, ch, name) ==
    IF \E i \in DOMAIN grouped : grouped[i].key = key /\ grouped[i].ext = ext
    THEN [i \in DOMAIN grouped |->
            IF grouped[i].key = key /\ grouped[i].ext = ext
            THEN [grouped[i] EXCEPT ![ch] = name]
            ELSE grouped[i]]
    ELSE Append(grouped, [key |-> key, ext |-> ext,
                          L |-> IF ch = "L" THEN name ELSE NoPath,
                          R |-> IF ch = "R" THEN name ELSE NoPath])

\* key = name.replace(f".{ch}{ext}", "")
GroupKey(name, ch, ext) == Replace(name, <<".", ch>> \o ext)

\* lines 186-195 for one path that is a file: the channel its name gives it
\* ("" when the loop skips it), its key and its extension
Classify(name) ==
    LET ext == Lower(Suffix(name))
    IN  IF ext \notin EXTENSIONS THEN [ch |-> "", key |-> <<>>, ext |-> ext]
        ELSE IF EndsWith(name, <<".", "L">> \o ext)
             THEN [ch |-> "L", key |-> GroupKey(name, "L", ext), ext |-> ext]
             ELSE IF EndsWith(name, <<".", "R">> \o ext)
                  THEN [ch |-> "R", key |-> GroupKey(name, "R", ext), ext |-> ext]
                  ELSE [ch |-> "", key |-> <<>>, ext |-> ext]

\* Classify of every name a folder may hold, computed once
Classified == [n \in ScanNames |-> Classify(n)]

\* one iteration of "for path in source.iterdir()"
GroupOne(f, grouped, name) ==
    IF ~IsFile(f, name) THEN grouped
    ELSE LET c == Classified[name]
         IN  IF c.ch = "" THEN grouped
             ELSE SetDefault(grouped, c.key, c.ext, c.ch, name)

\* the dict "grouped" after iterating the folder in the given order
\* (a dict keeps its keys in insertion order)
RECURSIVE Grouped(_, _)
Grouped(f, order) ==
    IF order = <<>> THEN <<>>
    ELSE GroupOne(f, Grouped(f, SubSeq(order, 1, Len(order) - 1)), order[Len(order)])

\* HasBoth, had the test been "if left"
HasLeft(g) == g.L # NoPath

\* HasBoth, had the test been "if left or right"
HasEither(g) == g.L # NoPath \/ g.R # NoPath

\* "if left and right"
HasBoth(g) == g.L # NoPath /\ g.R # NoPath

\* the second loop of _collect_pairs: the list it returns
PairsOf(grouped) ==
    LET both == SelectSeq(grouped, HasBoth)
    IN  [i \in 1..Len(both) |->
            [key |-> both[i].key, left |-> both[i].L,
             right |-> both[i].R, ext |-> both[i].ext]]

\* a line of the log; "pair" is the index of the pair the worker was on (0: none)
LogLine(kind, key, text, pair) ==
    [kind |-> kind, key |-> key, text |-> text, pair |-> pair]

NotBoth(g) == ~HasBoth(g)

\* SkipLines, had the else branch logged nothing
SkipLinesNone(grouped) == <<>>

\* the second loop of _collect_pairs: the lines it logs
SkipLines(grouped) ==
    LET lone == SelectSeq(grouped, NotBoth)
    IN  [i \in 1..Len(lone) |-> LogLine("Skipping", lone[i].key, "missing L or R", 0)]

\* the orders in which iterdir() may yield the folder's entries
RECURSIVE Orders(_)
Orders(S) ==
    IF S = {} THEN {<<>>}
    ELSE UNION {{<<x>> \o o : o \in Orders(S \ {x})} : x \in S}

\* OutputName, had the key been cut at its first dot
OutputNameStem(p) == <<p.key[1]>> \o p.ext

\* OutputName, had the output been given the right source's name
OutputNameRight(p) == p.right

\* OutputName, had the extension been left out
OutputNameBare(p) == p.key

\* OutputName, had the output been given the left source's name
OutputNameLeft(p) == p.left

\* f"{key}{ext}" of output_path = left.parent / f"{key}{ext}"
OutputName(p) == p.key \o p.ext

----------------------------------------------------------------------------
(* _merge_to_stereo *)

\* AudioSegment.from_file succeeds
Readable(f, name) == name \in DOMAIN f /\ f[name].kind = "audio"

\* the segment AudioSegment.from_file builds from a file: pydub keeps the
\* channels, frame rate and frames, and widens 3-byte samples to 4 bytes
\* (sample_width is then 4)
Decode(file) == [file EXCEPT !.width = IF file.width = 3 THEN 4 ELSE file.width]

\* len(segment): round(1000 * frame_count / frame_rate), in milliseconds
MsLen(a) ==
    LET n == (2000 * a.frames + a.rate) \div (2 * a.rate)
        tie == (2000 * a.frames + a.rate) % (2 * a.rate) = 0
    IN  IF tie /\ n % 2 = 1 THEN n - 1 ELSE n

\* the exception _merge_to_stereo raises before it exports ("" if none):
\* from_file (215-216), the two checks (217-220), from_mono_audiosegments (222)
MergeError(f, p) ==
    IF ~Readable(f, p.left) \/ ~Readable(f, p.right) THEN "decode"
    ELSE LET l == Decode(f[p.left])
             r == Decode(f[p.right])
         IN  IF l.rate # r.rate \/ l.width # r.width THEN "parameters"
             ELSE IF MsLen(l) # MsLen(r) THEN "length"
             ELSE IF l.ch # 1 \/ r.ch # 1 THEN "mono"
             ELSE IF l.frames # r.frames THEN "size"
             ELSE ""

\* str(exc) of the exception _merge_to_stereo raises on the decoded segments l
\* and r, word by word: the two messages of lines 218 and 220 are constant
\* strings; from_mono_audiosegments (222) complains of non-mono arguments, or
\* the array assignment in it of the two sizes
ExcText(err, l, r) ==
    IF err = "parameters" THEN <<"Input", "files", "differ", "in", "parameters.">>
    ELSE IF err = "length" THEN <<"Input", "files", "differ", "in", "length.">>
    ELSE IF err = "mono"
         THEN <<"AudioSegment.from_mono_audiosegments", "requires", "all", "arguments",
                "are", "mono", "AudioSegment", "instances">>
    ELSE IF err = "size"
         THEN <<"attempt", "to", "assign", "array", "of", "size",
                ToString(IF l.frames < r.frames THEN l.frames ELSE r.frames),
                "to", "extended", "slice", "of", "size",
                ToString(IF l.frames < r.frames THEN r.frames ELSE l.frames)>>
    ELSE <<err>>

\* AudioSegment.from_mono_audiosegments(left, right)
Stereo(l, r) == Audio(2, l.rate, l.width, l.frames)

\* what can happen to stereo.export(output_path): it succeeds, the open of the
\* output ("wb+") fails, or the encoder or the write fails after the open
ExportFaults(f, out) ==
    IF out \in DOMAIN f /\ f[out].kind = "dir" THEN {"open"}
    ELSE {"none", "open", "encode"}

\* the folder after stereo.export(output_path)
Export(f, out, seg, fault) ==
    IF fault = "open" THEN f
    ELSE [n \in DOMAIN f \cup {out} |->
            IF n = out THEN (IF fault = "none" THEN seg ELSE Partial) ELSE f[n]]

\* Unlink, had it left the file in place
UnlinkKeeps(f, name) == f

\* the folder after path.unlink(missing_ok=True)
Unlink(f, name) == [n \in DOMAIN f \ {name} |-> f[n]]

----------------------------------------------------------------------------
(* Inputs *)

MaxFiles == 4
MaxScanFiles == 4

Good      == Audio(1, 44100, 2, 100)
Rate48    == Audio(1, 48000, 2, 100)
Width1    == Audio(1, 44100, 1, 100)
Width3    == Audio(1, 44100, 3, 100)
Width4    == Audio(1, 44100, 4, 100)
Frames101 == Audio(1, 44100, 2, 101)
Frames200 == Audio(1, 44100, 2, 200)
TwoCh     == Audio(2, 44100, 2, 100)

\* what a file of a folder of the merge runs may hold
BatchContents == {Good, Rate48, TwoCh, Corrupt}

\* what a file of a folder of the single-pair runs may hold
PairContents ==
    {Good, Rate48, Width1, Width3, Width4, Frames101, Frames200, TwoCh, Corrupt}
ScanContents == {Good, Directory}

Folders(names, max, contents) ==
    UNION {[S -> contents] : S \in {T \in SUBSET names : Cardinality(T) <= max}}

----------------------------------------------------------------------------
(* The worker thread, _worker, and the switch *)

\* what _deps_ready looks for: the module pydub and the program ffmpeg
Tools == {"pydub", "ffmpeg"}

\* Path.home(), the folder the model follows
Home == <<"/", "h">>

\* the state of the screen and of the worker when _run_script has started it
Started(folder) ==
    /\ fs = folder
    /\ initial = folder
    /\ delete_sources = TRUE
    /\ pc = "start"
    /\ pairs = <<>>
    /\ index = 0
    /\ exc = ""
    /\ del_flag = FALSE
    /\ raised = <<>>
    /\ log_lines = <<>>
    /\ progress = <<0, 0>>
    /\ status = ""
    /\ emitted = <<>>
    /\ cancelled = FALSE
    /\ deps = Tools
    /\ others = EmptyBag
    /\ launched = 1
    /\ delete_at_start = TRUE

\* the state _run_script leaves when it starts the worker; no call of
\* _merge_to_stereo is followed byte by byte
Start(folder) ==
    /\ Started(folder)
    /\ merge_pc = "idle"
    /\ left_wav = NoWav
    /\ right_wav = NoWav
    /\ left_seg = NoSeg
    /\ right_seg = NoSeg
    /\ stereo_seg = NoSeg
    /\ output_wav = NoWav

Init == \E folder \in Folders(BatchNames, MaxFiles, BatchContents) : Start(folder)

InitPair == \E folder \in Folders(PairNames, MaxFiles, PairContents) : Start(folder)

InitScan == \E folder \in Folders(ScanNames, MaxScanFiles, ScanContents) : Start(folder)

\* lines 148-157: pairs = self._collect_pairs(source); if not pairs: ...
Collect ==
    /\ pc = "start"
    /\ \E order \in Orders(DOMAIN fs) :
         LET grouped == Grouped(fs, order)
             found == PairsOf(grouped)
         IN  /\ pairs' = found
             /\ log_lines' = log_lines \o SkipLines(grouped)
             /\ emitted' = emitted \o SkipLines(grouped)
             /\ raised' = [i \in 1..Len(found) |-> "-"]
             /\ IF found = <<>>
                THEN /\ status' = "No .L/.R pairs found."
                     /\ pc' = "stopped"
                     /\ UNCHANGED <<progress, index>>
                ELSE /\ progress' = <<0, Len(found)>>
                     /\ pc' = "merge"
                     /\ index' = 1
                     /\ UNCHANGED status
    /\ UNCHANGED <<fs, initial, delete_sources, exc, del_flag, cancelled, mergevars, startvars>>

\* AfterTry, had the try block gone on after a statement that raised
AfterTrySwallow(error, on) == on

\* AfterTry, had there been no except clause: the exception ends the worker
AfterTryRaise(error, on) == IF error = "" THEN on ELSE "crashed"

\* where the try block goes after a statement: on, or to the except clause
AfterTry(error, on) == IF error = "" THEN on ELSE "log_failed"

\* lines 160-162: self._merge_to_stereo(left, right, output_path)
Merge ==
    /\ pc = "merge"
    /\ LET p == pairs[index]
           err == MergeError(fs, p)
       IN  IF err # ""
           THEN /\ exc' = err
                /\ fs' = fs
           ELSE \E fault \in ExportFaults(fs, OutputName(p)) :
                  /\ fs' = Export(fs, OutputName(p),
                               Stereo(Decode(fs[p.left]), Decode(fs[p.right])), fault)
                  /\ exc' = IF fault = "none" THEN "" ELSE "export"
    /\ pc' = AfterTry(exc', "delete")
    /\ raised' = [raised EXCEPT ![index] = exc']
    /\ UNCHANGED <<initial, delete_sources, pairs, index, del_flag, log_lines, progress, status,
                   emitted, cancelled, mergevars, startvars>>

\* lines 163-164: if self.delete_sources.value: left.unlink(missing_ok=True)
UnlinkLeft ==
    /\ pc = "delete"
    /\ del_flag' = delete_sources
    /\ IF delete_sources
       THEN \E ok \in BOOLEAN :
              /\ fs' = IF ok THEN Unlink(fs, pairs[index].left) ELSE fs
              /\ exc' = IF ok THEN "" ELSE "unlink"
              /\ pc' = AfterTry(exc', "unlink_right")
       ELSE /\ pc' = "log_merged"
            /\ UNCHANGED <<fs, exc>>
    /\ raised' = [raised EXCEPT ![index] = exc']
    /\ UNCHANGED <<initial, delete_sources, pairs, index, log_lines, progress, status,
                   emitted, cancelled, mergevars, startvars>>

\* line 165: right.unlink(missing_ok=True)
UnlinkRight ==
    /\ pc = "unlink_right"
    /\ \E ok \in BOOLEAN :
         /\ fs' = IF ok THEN Unlink(fs, pairs[index].right) ELSE fs
         /\ exc' = IF ok THEN "" ELSE "unlink"
    /\ pc' = AfterTry(exc', "log_merged")
    /\ raised' = [raised EXCEPT ![index] = exc']
    /\ UNCHANGED <<initial, delete_sources, pairs, index, del_flag, log_lines, progress, status,
                   emitted, cancelled, mergevars, startvars>>

\* lines 166-168: self._log(f"Merged: {output_path}")
LogMerged ==
    /\ pc = "log_merged"
    /\ log_lines' = Append(log_lines, LogLine("Merged", OutputName(pairs[index]), "", index))
    /\ emitted' = Append(emitted, LogLine("Merged", OutputName(pairs[index]), "", index))
    /\ pc' = "progress"
    /\ UNCHANGED <<fs, initial, delete_sources, pairs, index, exc, del_flag, raised,
                   progress, status, cancelled, mergevars, startvars>>

\* lines 169-172: except Exception as exc: self._log(f"Failed {key}: {exc}")
LogFailed ==
    /\ pc = "log_failed"
    /\ log_lines' = Append(log_lines, LogLine("Failed", pairs[index].key, exc, index))
    /\ emitted' = Append(emitted, LogLine("Failed", pairs[index].key, exc, index))
    /\ pc' = "progress"
    /\ UNCHANGED <<fs, initial, delete_sources, pairs, index, exc, del_flag, raised,
                   progress, status, cancelled, mergevars, startvars>>

\* AfterPair, had the except clause ended the loop
AfterPairAbort(i, n) == IF exc # "" \/ i >= n THEN "complete" ELSE "merge"

\* where the for loop goes after the pair at position i of n
AfterPair(i, n) == IF i < n THEN "merge" ELSE "complete"

\* lines 173-175: self.progress.update(progress=index, total=total), and the loop's next turn
Progress ==
    /\ pc = "progress"
    /\ progress' = <<index, Len(pairs)>>
    /\ pc' = AfterPair(index, Len(pairs))
    /\ index' = IF pc' = "merge" THEN index + 1 ELSE index
    /\ exc' = ""
    /\ UNCHANGED <<fs, initial, delete_sources, pairs, del_flag, raised, log_lines, status,
                   emitted, cancelled, mergevars, startvars>>

\* lines 177-179: self.status.update("[green]Stereo merge completed.[/green]")
Complete ==
    /\ pc = "complete"
    /\ status' = "Stereo merge completed."
    /\ pc' = "done"
    /\ UNCHANGED <<fs, initial, delete_sources, pairs, index, exc, del_flag, raised,
                   log_lines, progress, emitted, cancelled, mergevars, startvars>>

\* the user flips the "Delete source files after merge" switch (line 81)
ToggleDelete ==
    /\ ~cancelled
    /\ delete_sources' = ~delete_sources
    /\ UNCHANGED <<fs, initial, pc, pairs, index, exc, del_flag, raised,
                   log_lines, progress, status, emitted, cancelled, mergevars, startvars>>

Next ==
    \/ Collect
    \/ Merge
    \/ UnlinkLeft
    \/ UnlinkRight
    \/ LogMerged
    \/ LogFailed
    \/ Progress
    \/ Complete
    \/ ToggleDelete

Spec == Init /\ [][Next]_vars

SpecPair == InitPair /\ [][Next]_vars

NextScan == Collect

SpecScan == InitScan /\ [][NextScan]_vars

----------------------------------------------------------------------------
(* _merge_to_stereo on a pair of .wav files, byte by byte *)

MaxFrames == 1

\* the values a byte of sample data may have
SampleBytes == {5, 200}

\* Wave_write, had it written a total size that fits an empty payload only
WaveWriteFixed(ch, rate, width, data) ==
    [riff_size |-> 36, ch |-> ch, rate |-> rate, width |-> width,
     data_size |-> Len(data), data |-> data]

\* the .wav file the wave module writes (export, format "wav"): a 44-byte
\* header, its two size fields set from the data written, then the data
WaveWrite(ch, rate, width, data) ==
    [riff_size |-> 36 + Len(data), ch |-> ch, rate |-> rate, width |-> width,
     data_size |-> Len(data), data |-> data]

\* the mono .wav files of up to MaxFrames frames, of byte width 1 to 4
WavFiles ==
    UNION {UNION {{WaveWrite(1, 44100, w, d) : d \in [1..(w * n) -> SampleBytes]}
                  : n \in 0..MaxFrames}
           : w \in 1..4}

\* audioop.bias(data, 1, 128) and audioop.bias(data, 1, -128): 8-bit samples
\* are unsigned in a .wav file and signed in a segment
Bias(data) == [i \in 1..Len(data) |-> (data[i] + 128) % 256]

\* the 24-bit samples of data made 32-bit: a padding byte, then the three bytes
Widen(data) ==
    [i \in 1..(4 * (Len(data) \div 3)) |->
        LET k == (i - 1) \div 4
            j == (i - 1) % 4
        IN  IF j = 0 THEN (IF data[3 * k + 3] > 127 THEN 255 ELSE 0)
            ELSE data[3 * k + j]]

\* AudioSegment.from_file raises: the widening of 24-bit data looks at its
\* first byte
FromFileRaises(file) == file.width = 3 /\ file.data = <<>>

\* AudioSegment.from_file(path) of a .wav file
FromFile(file) ==
    [ch |-> file.ch, rate |-> file.rate,
     width |-> IF file.width = 3 THEN 4 ELSE file.width,
     data |-> IF file.width = 1 THEN Bias(file.data)
              ELSE IF file.width = 3 THEN Widen(file.data)
              ELSE file.data]

\* segment.frame_count()
FrameCount(seg) == Len(seg.data) \div (seg.ch * seg.width)

\* len(segment)
SegLen(seg) == MsLen([frames |-> FrameCount(seg), rate |-> seg.rate])

\* the samples of two mono segments of sample width w, left then right in
\* each frame (stereo_data[0::2] = left, stereo_data[1::2] = right)
Interleave(l, r, w) ==
    [i \in 1..(2 * Len(l)) |->
        LET f == (i - 1) \div (2 * w)
            o == (i - 1) % (2 * w)
        IN  IF o < w THEN l[f * w + o + 1] ELSE r[f * w + (o - w) + 1]]

InitMerge ==
    /\ Started(<<>>)
    /\ merge_pc = "from_file"
    /\ left_wav \in WavFiles
    /\ right_wav \in WavFiles
    /\ left_seg = NoSeg
    /\ right_seg = NoSeg
    /\ stereo_seg = NoSeg
    /\ output_wav = NoWav

\* lines 215-216: left = AudioSegment.from_file(left_path), and right
ReadFiles ==
    /\ merge_pc = "from_file"
    /\ IF FromFileRaises(left_wav) \/ FromFileRaises(right_wav)
       THEN /\ merge_pc' = "raised"
            /\ UNCHANGED <<left_seg, right_seg>>
       ELSE /\ left_seg' = FromFile(left_wav)
            /\ right_seg' = FromFile(right_wav)
            /\ merge_pc' = "check"
    /\ UNCHANGED <<left_wav, right_wav, stereo_seg, output_wav, workervars, startvars>>

\* lines 217-220: the two checks
CheckSegments ==
    /\ merge_pc = "check"
    /\ merge_pc' =
         IF left_seg.rate # right_seg.rate \/ left_seg.width # right_seg.width THEN "raised"
         ELSE IF SegLen(left_seg) # SegLen(right_seg) THEN "raised"
         ELSE "from_mono"
    /\ UNCHANGED <<left_wav, right_wav, left_seg, right_seg, stereo_seg, output_wav, workervars, startvars>>

\* line 222: stereo = AudioSegment.from_mono_audiosegments(left, right)
FromMono ==
    /\ merge_pc = "from_mono"
    /\ IF left_seg.ch # 1 \/ right_seg.ch # 1
          \/ FrameCount(left_seg) # FrameCount(right_seg)
       THEN /\ merge_pc' = "raised"
            /\ UNCHANGED stereo_seg
       ELSE /\ stereo_seg' = [ch |-> 2, rate |-> left_seg.rate, width |-> left_seg.width,
                              data |-> Interleave(left_seg.data, right_seg.data, left_seg.width)]
            /\ merge_pc' = "export"
    /\ UNCHANGED <<left_wav, right_wav, left_seg, right_seg, output_wav, workervars, startvars>>

\* lines 223-227: stereo.export(output_path, format="wav"), which may fail
ExportWav ==
    /\ merge_pc = "export"
    /\ \E ok \in BOOLEAN :
         IF ok
         THEN /\ output_wav' = WaveWrite(stereo_seg.ch, stereo_seg.rate, stereo_seg.width,
                                         IF stereo_seg.width = 1 THEN Bias(stereo_seg.data)
                                         ELSE stereo_seg.data)
              /\ merge_pc' = "returned"
         ELSE /\ merge_pc' = "raised"
              /\ UNCHANGED output_wav
    /\ UNCHANGED <<left_wav, right_wav, left_seg, right_seg, stereo_seg, workervars, startvars>>

NextMerge ==
    \/ ReadFiles
    \/ CheckSegments
    \/ FromMono
    \/ ExportWav

SpecMerge == InitMerge /\ [][NextMerge]_vars

----------------------------------------------------------------------------
(* The screen's buttons and the escape key while the worker runs *)

\* what a file of a folder of the runs with the buttons may hold
ScreenContents == {Good, Corrupt}

InitScreen == \E folder \in Folders(BatchNames, MaxFiles, ScreenContents) : Start(folder)

\* button "stereo-clear" (96-98): _clear_log
ClearLog ==
    /\ ~cancelled
    /\ log_lines' = <<>>
    /\ status' = ""
    /\ progress' = <<0, 0>>
    /\ UNCHANGED <<fs, initial, delete_sources, pc, pairs, index, exc, del_flag, raised,
                   emitted, cancelled, mergevars, startvars>>

\* escape: the app pops the screen, and its workers are cancelled; the thread
\* of _worker never looks at the flag
Back ==
    /\ ~cancelled
    /\ cancelled' = TRUE
    /\ UNCHANGED <<fs, initial, delete_sources, pc, pairs, index, exc, del_flag, raised,
                   log_lines, progress, status, emitted, mergevars, startvars>>

NextScreen ==
    \/ Next
    \/ ClearLog
    \/ Back

SpecScreen == InitScreen /\ [][NextScreen]_vars

\* the steps of the worker thread once _collect_pairs has returned some pairs:
\* the for loop and the final status (159-179)
WorkerLoop ==
    \/ Merge
    \/ UnlinkLeft
    \/ UnlinkRight
    \/ LogMerged
    \/ LogFailed
    \/ Progress
    \/ Complete

\* the worker thread is scheduled as long as its loop has a step to take
SpecFair == InitScreen /\ [][NextScreen]_vars /\ WF_vars(WorkerLoop)

----------------------------------------------------------------------------
(* The Start button: _run_script, _deps_ready and _resolve_source *)

\* the most worker threads Start launches in a run
MaxStarts == 2

\* str.lstrip() and str.rstrip() of a text whose only whitespace is the space
RECURSIVE LStrip(_)
LStrip(text) == IF text # <<>> /\ text[1] = " " THEN LStrip(Tail(text)) ELSE text

RECURSIVE RStrip(_)
RStrip(text) ==
    IF text # <<>> /\ text[Len(text)] = " " THEN RStrip(SubSeq(text, 1, Len(text) - 1))
    ELSE text

\* self.source_input.value.strip()
Strip(text) == RStrip(LStrip(text))

\* Path(raw).expanduser(): a leading "~" component becomes the home folder
ExpandUser(path) ==
    IF path # <<>> /\ path[1] = "~" /\ (Len(path) = 1 \/ path[2] = "/")
    THEN Home \o SubSeq(path, 2, Len(path))
    ELSE path

\* a regular file next to the folder
FilePath == <<"/", "f">>

\* what is at a path: the folder the model follows, a regular file, or nothing
PathKind(path) ==
    IF path = Home THEN "dir"
    ELSE IF path = FilePath THEN "file"
    ELSE "missing"

\* the texts the source field may hold
RawInputs == {<<>>, <<" ">>, <<" ", "~", " ">>, FilePath, <<"/", "x">>}

\* _deps_ready (229-236): the status it sets when it returns False, "" when True
DepsError(tools) ==
    IF "pydub" \notin tools THEN "Missing dependency: pydub."
    ELSE IF "ffmpeg" \notin tools THEN "Missing dependency: ffmpeg."
    ELSE ""

\* ResolveError, had _resolve_source returned the path unchecked
ResolveErrorNone(text) == ""

\* _resolve_source (136-145): the status it sets when it returns None, "" when
\* it returns the path
ResolveError(text) ==
    LET raw == Strip(text)
    IN  IF raw = <<>> THEN "Source folder is required."
        ELSE IF PathKind(ExpandUser(raw)) # "dir" THEN "Source folder not found."
        ELSE ""

\* a worker thread at this position still has steps to take
Active(position) == position \notin {"idle", "done", "stopped"}

\* the local state of the worker thread the model is following
ThreadState ==
    [pc |-> pc, pairs |-> pairs, index |-> index, exc |-> exc, del_flag |-> del_flag,
     raised |-> raised, initial |-> initial, emitted |-> emitted,
     delete_at_start |-> delete_at_start]

\* what a file of a folder of the runs with the Start button may hold
StartContents == {Good}

\* the screen as compose() builds it (66-93), before Start is pressed
InitStart ==
    \E folder \in Folders(PairNames, MaxFiles, StartContents), tools \in SUBSET Tools :
        /\ fs = folder
        /\ initial = folder
        /\ delete_sources = TRUE
        /\ pc = "idle"
        /\ pairs = <<>>
        /\ index = 0
        /\ exc = ""
        /\ del_flag = FALSE
        /\ raised = <<>>
        /\ log_lines = <<>>
        /\ progress = <<0, 0>>
        /\ status = ""
        /\ emitted = <<>>
        /\ cancelled = FALSE
        /\ deps = tools
        /\ others = EmptyBag
        /\ launched = 0
        /\ delete_at_start = TRUE
        /\ merge_pc = "idle"
        /\ left_wav = NoWav
        /\ right_wav = NoWav
        /\ left_seg = NoSeg
        /\ right_seg = NoSeg
        /\ stereo_seg = NoSeg
        /\ output_wav = NoWav

\* _run_script (125-134) when the source field holds the given text.  A worker
\* that is still running goes on beside the new one: nothing here looks for
\* it, and run_worker starts a thread of its own for every call.
RunScriptWith(text) ==
    /\ ~cancelled
    /\ LET error == IF DepsError(deps) # "" THEN DepsError(deps) ELSE ResolveError(text)
       IN  IF error # ""
           THEN /\ status' = error
                /\ UNCHANGED <<fs, initial, pc, pairs, index, exc, del_flag, raised,
                               log_lines, progress, emitted, others, launched,
                               delete_at_start>>
           ELSE /\ launched < MaxStarts
                /\ launched' = launched + 1
                /\ status' = ""
                /\ log_lines' = <<>>
                /\ progress' = <<0, 0>>
                /\ others' = IF Active(pc) THEN others (+) SetToBag({ThreadState})
                             ELSE others
                /\ pc' = "start"
                /\ initial' = fs
                /\ pairs' = <<>>
                /\ index' = 0
                /\ exc' = ""
                /\ del_flag' = FALSE
                /\ raised' = <<>>
                /\ emitted' = <<>>
                /\ delete_at_start' = delete_sources
                /\ UNCHANGED fs
    /\ UNCHANGED <<delete_sources, cancelled, deps, mergevars>>

\* button "stereo-run" (105-106), whatever the user has typed into the source
\* field (74-78)
RunScript == \E text \in RawInputs : RunScriptWith(text)

\* the scheduler turns to another of the worker threads: the model follows it
SwitchWorker ==
    \E thread \in BagToSet(others) :
        /\ pc' = thread.pc
        /\ pairs' = thread.pairs
        /\ index' = thread.index
        /\ exc' = thread.exc
        /\ del_flag' = thread.del_flag
        /\ raised' = thread.raised
        /\ initial' = thread.initial
        /\ emitted' = thread.emitted
        /\ delete_at_start' = thread.delete_at_start
        /\ others' = (others (-) SetToBag({thread}))
                        (+) (IF Active(pc) THEN SetToBag({ThreadState}) ELSE EmptyBag)
        /\ UNCHANGED <<fs, delete_sources, log_lines, progress, status, cancelled,
                       deps, launched, mergevars>>

NextStart ==
    \/ Collect
    \/ Merge
    \/ UnlinkLeft
    \/ UnlinkRight
    \/ LogMerged
    \/ LogFailed
    \/ Progress
    \/ Complete
    \/ RunScript
    \/ SwitchWorker

SpecStart == InitStart /\ [][NextStart]_vars

----------------------------------------------------------------------------
(* Properties of a batch *)

\* the lines of the log that report the outcome of pair i
ResultLines(i) == {n \in DOMAIN log_lines : log_lines[n].pair = i}

HasLine(i, kind) == \E n \in ResultLines(i) : log_lines[n].kind = kind

SourcesPresent(p) == p.left \in DOMAIN fs /\ p.right \in DOMAIN fs

SourcesGone(p) == p.left \notin DOMAIN fs /\ p.right \notin DOMAIN fs

\* C1: when the batch ends every candidate pair has exactly one result line,
\* "Failed" if a step of its own merge raised (read, validation, interleave,
\* write or delete) and "Merged" if none did, wherever the failing pair stands
\* in the processing order: a failure never keeps a later pair from being
\* processed.
C1_FailureIsolation ==
    pc = "done" =>
        \A i \in DOMAIN pairs :
            /\ Cardinality(ResultLines(i)) = 1
            /\ \A n \in ResultLines(i) :
                 log_lines[n].kind = (IF raised[i] = "" THEN "Merged" ELSE "Failed")

\* a finished batch of two pairs whose first pair failed and whose second merged
C1_Witness ==
    /\ pc = "done"
    /\ Len(pairs) = 2
    /\ raised[1] # "" /\ HasLine(1, "Failed")
    /\ raised[2] = "" /\ HasLine(2, "Merged")

\* C2: when the batch ends, both source files of every pair recorded as failed
\* still exist.
C2_FailedPairKeepsSources ==
    pc = "done" =>
        \A i \in DOMAIN pairs : HasLine(i, "Failed") => SourcesPresent(pairs[i])

\* C3: when a pair has completed with success, both of its sources are gone if
\* the delete-sources switch was set when the worker consulted it for that
\* pair, and both are still there if it was not.
C3_SourcesDeletedIffRequested ==
    (pc = "progress" /\ raised[index] = "") =>
        IF del_flag THEN SourcesGone(pairs[index]) ELSE SourcesPresent(pairs[index])

\* the second pair has merged and lost its sources, after the first merged and kept them
C3_Witness ==
    /\ pc = "progress" /\ index = 2
    /\ raised[1] = "" /\ SourcesPresent(pairs[1])
    /\ raised[2] = "" /\ del_flag /\ SourcesGone(pairs[2])

\* the pair the worker is on
Current == pairs[index]

BothReadable(p) == Readable(fs, p.left) /\ Readable(fs, p.right)

ParamsDiffer(l, r) == l.rate # r.rate \/ l.width # r.width \/ l.frames # r.frames

\* the worker takes the step that runs _merge_to_stereo
MergeRuns == pc = "merge" /\ pc' # "merge"

\* C4: a pair whose two readable sources differ in sample rate, byte width or
\* frame count is rejected by the merge step before anything is written: the
\* step raises and leaves the whole folder as it was (no output created or
\* overwritten, both sources in place), and the pair is then logged as failed.
\* The parameters compared are those stored in the two files.
C4_MismatchRejected ==
    /\ [][(MergeRuns /\ BothReadable(Current)
            /\ ParamsDiffer(fs[Current.left], fs[Current.right]))
          => (fs' = fs /\ pc' = "log_failed" /\ raised'[index] # "")]_vars
    /\ []((pc = "progress" /\ BothReadable(Current)
            /\ ParamsDiffer(fs[Current.left], fs[Current.right]))
          => (HasLine(index, "Failed") /\ ~HasLine(index, "Merged")))

PairPaths(p) == {p.left, p.right, OutputName(p)}

\* C5: the three paths of a candidate pair are disjoint from those of every
\* other candidate pair of the scan, so that when the batch ends each pair's
\* outcome is what the folder's initial contents give for that pair alone
\* (or an I/O failure of its own write or delete), whatever the order.
C5_PairsIndependent ==
    /\ \A i, j \in DOMAIN pairs :
         i # j => PairPaths(pairs[i]) \cap PairPaths(pairs[j]) = {}
    /\ pc = "done" =>
         \A i \in DOMAIN pairs :
            raised[i] \in {MergeError(initial, pairs[i]), "export", "unlink"}

\* a name is written by a step: created, or its content changed
Written(n) == n \in DOMAIN fs' /\ (n \notin DOMAIN fs \/ fs'[n] # fs[n])

\* C8: when the merge of a pair succeeds, the stereo result is at <key><ext> in
\* the folder, <ext> being the extension of both sources, whether or not a
\* file was there before, and no other entry of the folder is touched.
C8_OutputAtKeyExt ==
    [][(pc = "merge" /\ pc' = "delete") =>
         LET p == Current
             out == p.key \o p.ext
         IN  /\ Suffix(out) = Suffix(p.left)
             /\ Suffix(out) = Suffix(p.right)
             /\ DOMAIN fs' = DOMAIN fs \cup {out}
             /\ fs'[out].kind = "audio" /\ fs'[out].ch = 2
             /\ fs'[out].rate = fs[p.left].rate /\ fs'[out].frames = fs[p.left].frames
             /\ \A n \in DOMAIN fs \ {out} : fs'[n] = fs[n]]_vars

\* a merge has succeeded over an output file that existed with other content
C8_Witness ==
    /\ pc = "delete"
    /\ index = 1
    /\ OutputName(Current) \in DOMAIN initial
    /\ initial[OutputName(Current)] = Corrupt
    /\ fs[OutputName(Current)] = Audio(2, 44100, 2, 100)

Compatible(l, r) ==
    /\ l.ch = 1 /\ r.ch = 1
    /\ l.rate = r.rate /\ l.width = r.width /\ l.frames = r.frames

\* C9: a step writes a file only if it is the merge step of a pair whose two
\* sources are readable, mono and equal in sample rate, byte width and frame
\* count, and the file is that pair's output; for every other pair the merge
\* step raises and leaves the folder as it was.
C9_WriteOnlyIfCompatible ==
    /\ [][\A n \in DOMAIN fs' :
            Written(n) =>
                /\ pc = "merge"
                /\ n = OutputName(Current)
                /\ BothReadable(Current)
                /\ Compatible(fs[Current.left], fs[Current.right])]_vars
    /\ [][(MergeRuns /\ ~(BothReadable(Current)
                          /\ Compatible(fs[Current.left], fs[Current.right])))
          => (fs' = fs /\ pc' = "log_failed")]_vars

\* C10: a source file of a pair is gone only once the pair's "Merged" line has
\* been logged, and only if deletion was requested for that pair.
C10_DeleteAfterSuccessRecorded ==
    \A i \in DOMAIN pairs :
        ~SourcesPresent(pairs[i]) =>
            /\ HasLine(i, "Merged")
            /\ (i = index => del_flag)

----------------------------------------------------------------------------
(* Properties of discovery *)

\* the files of the folder that the scan puts on side ch of the group (key, ext)
SideFiles(key, ext, ch) ==
    {n \in DOMAIN initial :
        /\ IsFile(initial, n)
        /\ Classified[n].ch = ch /\ Classified[n].key = key /\ Classified[n].ext = ext}

\* the (key, extension) groups of the folder
Groups ==
    {<<Classified[n].key, Classified[n].ext>> :
        n \in {m \in DOMAIN initial : IsFile(initial, m) /\ Classified[m].ch # ""}}

GroupComplete(g) == SideFiles(g[1], g[2], "L") # {} /\ SideFiles(g[1], g[2], "R") # {}

SkipLinesFor(key) ==
    {n \in DOMAIN log_lines : log_lines[n].kind = "Skipping" /\ log_lines[n].key = key}

\* C6: after discovery, a group (key, extension) has a candidate pair, made of
\* one of its L files and one of its R files, exactly when it has both; a
\* group with one side only has no pair and one "Skipping" line, and the
\* other groups are discovered all the same.
C6_PairIffBothSides ==
    pc # "start" =>
        /\ \A g \in Groups :
             Cardinality({i \in DOMAIN pairs : pairs[i].key = g[1] /\ pairs[i].ext = g[2]})
                = (IF GroupComplete(g) THEN 1 ELSE 0)
        /\ \A i \in DOMAIN pairs :
             /\ pairs[i].left \in SideFiles(pairs[i].key, pairs[i].ext, "L")
             /\ pairs[i].right \in SideFiles(pairs[i].key, pairs[i].ext, "R")
        /\ \A g \in Groups :
             Cardinality(SkipLinesFor(g[1]))
                = Cardinality({h \in Groups : h[1] = g[1] /\ ~GroupComplete(h)})
        /\ Len(log_lines) = Cardinality({h \in Groups : ~GroupComplete(h)})

\* discovery found a pair although it logged a one-sided group before reaching it
C6_Witness ==
    /\ pc = "merge"
    /\ Len(pairs) = 1
    /\ Len(log_lines) = 1
    /\ log_lines[1].kind = "Skipping"

\* the name without its last n characters
DropLast(name, n) == SubSeq(name, 1, Len(name) - n)

\* C7: the key of a pair is the name of each of its files with only the
\* trailing .L<ext> or .R<ext> removed, so the two files of a pair have the
\* same name up to the channel letter.
C7_KeyStripsTrailingSuffixOnly ==
    \A i \in DOMAIN pairs :
        /\ pairs[i].key = DropLast(pairs[i].left, Len(pairs[i].ext) + 2)
        /\ pairs[i].key = DropLast(pairs[i].right, Len(pairs[i].ext) + 2)

----------------------------------------------------------------------------
(* Properties of progress, results and the screen *)

\* the batch is running: the worker has neither finished nor stopped
Running == pc \notin {"done", "stopped"}

\* C11: progress is reported after each pair, failed or not: after the k-th
\* pair the value is k of N; while the batch runs the reported count never
\* decreases; when the batch has finished it is N of N.
C11_ProgressAfterEachPair ==
    /\ [][(pc = "progress" /\ pc' # "progress") => progress' = <<index, Len(pairs)>>]_vars
    /\ [][Running => progress'[1] >= progress[1]]_vars
    /\ [](pc = "done" => progress = <<Len(pairs), Len(pairs)>>)

\* the lines the worker produced for pair i
Results(i) == {n \in DOMAIN emitted : emitted[n].pair = i}

\* the lines of a kind the worker produced
Produced(kind) == {n \in DOMAIN emitted : emitted[n].kind = kind}

\* the pairs whose try block has run
Attempted == {i \in DOMAIN raised : raised[i] # "-"}

\* C12: when the batch finishes the worker has produced one result line per
\* candidate pair, "Merged" or "Failed", and one warning per one-sided group
\* found at discovery, and nothing else; attempted = number of pairs =
\* succeeded + failed; each "Failed" line carries its pair's key and a reason.
C12_OneResultPerPair ==
    pc = "done" =>
        /\ \A i \in DOMAIN pairs :
             /\ Cardinality(Results(i)) = 1
             /\ \A n \in Results(i) : emitted[n].kind \in {"Merged", "Failed"}
        /\ Cardinality(Attempted) = Len(pairs)
        /\ Cardinality(Produced("Merged")) + Cardinality(Produced("Failed")) = Len(pairs)
        /\ Cardinality(Produced("Skipping")) = Cardinality({g \in Groups : ~GroupComplete(g)})
        /\ Len(emitted) = Len(pairs) + Cardinality(Produced("Skipping"))
        /\ \A n \in Produced("Failed") :
             /\ emitted[n].pair \in DOMAIN pairs
             /\ emitted[n].key = pairs[emitted[n].pair].key
             /\ emitted[n].text # ""

\* a finished batch that produced a warning and a failure, the log having been
\* cleared in between
C12_Witness ==
    /\ pc = "done"
    /\ Produced("Skipping") # {}
    /\ Produced("Failed") # {}
    /\ Len(log_lines) < Len(emitted)

\* C13: once cancellation has been requested no further pair is started after
\* the pair in progress has completed, and the request itself touches no file,
\* so the pair in progress finishes or fails as it would have.
C13_CancelStopsDispatch ==
    /\ [][(cancelled /\ pc = "progress") => pc' # "merge"]_vars
    /\ [][(cancelled' # cancelled) => (fs' = fs /\ pc' = pc)]_vars

\* the number of bytes of sample data of an audio file
Payload(a) == a.ch * a.width * a.frames

\* C14: when the merge of a pair succeeds, the output has 2 channels, the
\* sample rate, byte width and frame count of each of the two source files,
\* and a payload twice as long as that of either source.
C14_OutputParameters ==
    [][(pc = "merge" /\ pc' = "delete") =>
         LET l == fs[Current.left]
             r == fs[Current.right]
             out == fs'[OutputName(Current)]
         IN  /\ out.kind = "audio" /\ out.ch = 2
             /\ out.rate = l.rate /\ out.rate = r.rate
             /\ out.width = l.width /\ out.width = r.width
             /\ out.frames = l.frames /\ out.frames = r.frames
             /\ Payload(out) = 2 * Payload(l) /\ Payload(out) = 2 * Payload(r)]_vars

----------------------------------------------------------------------------
(* Properties of the merged data *)

\* the w-byte groups of d at the even (side 0) or odd (side 1) positions, joined
Deinterleave(d, w, side) ==
    LET groups == Len(d) \div w
        kept == (groups + 1 - side) \div 2
    IN  [i \in 1..(kept * w) |-> d[(2 * ((i - 1) \div w) + side) * w + ((i - 1) % w) + 1]]

\* C15: for source files of byte width 1, 2, 3 or 4 and equal length, the data
\* of the written file is the left and right samples interleaved frame by
\* frame, each sample byte for byte as in its source: the even groups of
\* byte-width bytes are the left file's data and the odd groups the right's.
C15_InterleaveRoundTrip ==
    merge_pc = "returned" =>
        /\ Deinterleave(output_wav.data, left_wav.width, 0) = left_wav.data
        /\ Deinterleave(output_wav.data, right_wav.width, 1) = right_wav.data

\* the number of bytes of a .wav file: 44 bytes of header, then the data
FileSize(file) == 44 + Len(file.data)

----------------------------------------------------------------------------
(* Properties of the failure report *)

\* the parameters in which two audio files differ
DiffFields(l, r) ==
    {f \in {"sampleRate", "byteWidth", "frameCount", "channelCount"} :
        \/ f = "sampleRate" /\ l.rate # r.rate
        \/ f = "byteWidth" /\ l.width # r.width
        \/ f = "frameCount" /\ l.frames # r.frames
        \/ f = "channelCount" /\ l.ch # r.ch}

\* the value of a parameter of an audio file
FieldValue(a, f) ==
    IF f = "sampleRate" THEN a.rate
    ELSE IF f = "byteWidth" THEN a.width
    ELSE IF f = "frameCount" THEN a.frames
    ELSE a.ch

\* a word occurs in a message
Mentions(msg, word) == \E i \in DOMAIN msg : msg[i] = word

\* the exceptions that reject a pair for its parameters
MismatchErrors == {"parameters", "length", "mono", "size"}

\* C17: when a pair has been rejected because its two files differ in sample
\* rate, byte width, frame count or channel count, its "Failed" line names
\* every field that differs and quotes the left and the right value of each.
C17_FailureNamesFields ==
    (/\ pc = "progress"
     /\ raised[index] \in MismatchErrors
     /\ BothReadable(Current)
     /\ DiffFields(fs[Current.left], fs[Current.right]) # {})
    => \A n \in ResultLines(index) :
          LET l == fs[Current.left]
              r == fs[Current.right]
              msg == ExcText(log_lines[n].text, Decode(l), Decode(r))
          IN  /\ log_lines[n].kind = "Failed"
              /\ \A f \in DiffFields(l, r) :
                    /\ Mentions(msg, f)
                    /\ Mentions(msg, ToString(FieldValue(l, f)))
                    /\ Mentions(msg, ToString(FieldValue(r, f)))

----------------------------------------------------------------------------
(* Properties of the worker among the user's actions *)

\* C18: while a batch runs, what the worker shares with the rest of the program
\* is the log and the progress counter only, so a step of the user changes
\* neither the delete switch the worker reads nor the status it writes; and
\* the log is append-only: no step removes or alters a line already in it.
C18_LogAppendOnly ==
    /\ [][(Running /\ pc' = pc) => UNCHANGED <<delete_sources, status>>]_vars
    /\ [][Running => /\ Len(log_lines') >= Len(log_lines)
                     /\ SubSeq(log_lines', 1, Len(log_lines)) = log_lines]_vars

\* C19: once discovery has found at least one pair, the worker gets to the end
\* of the batch, whatever its pairs raise: every pair has been attempted and
\* the status is the one of completion.
C19_BatchTerminates ==
    (pc = "merge" /\ index = 1)
        ~> (/\ pc = "done"
            /\ status = "Stereo merge completed."
            /\ \A i \in DOMAIN pairs : raised[i] # "-")

\* a batch of two pairs that both failed has run to its end
C19_Witness ==
    /\ pc = "done"
    /\ Len(pairs) = 2
    /\ raised[1] \notin {"", "-"}
    /\ raised[2] \notin {"", "-"}

----------------------------------------------------------------------------
(* Properties of what discovery considers *)

\* a regular file of the folder whose extension is one of the recognized ones,
\* in upper or lower case
Recognized(n) == IsFile(initial, n) /\ Lower(Suffix(n)) \in EXTENSIONS

\* the name is <key>.<ch>.<ext>, <ext> being its own extension
MatchesSide(n, ch) == Suffix(n) # <<>> /\ EndsWith(n, <<".", ch>> \o Suffix(n))

Candidate(n) == Recognized(n) /\ (MatchesSide(n, "L") \/ MatchesSide(n, "R"))

IsPrefix(k, n) == Len(k) <= Len(n) /\ SubSeq(n, 1, Len(k)) = k

\* the group of n shows in the result: as a pair or as a warning
GroupShown(n) ==
    \/ \E i \in DOMAIN pairs : IsPrefix(pairs[i].key, n) /\ pairs[i].ext = Lower(Suffix(n))
    \/ \E i \in DOMAIN log_lines : log_lines[i].kind = "Skipping" /\ IsPrefix(log_lines[i].key, n)

\* C20: after discovery, every regular file of the folder with a recognized
\* extension and a name <key>.L.<ext> or <key>.R.<ext> is in a group (its
\* group is a pair or has a warning); every file of a pair and every warning
\* comes from such a file, never from a subdirectory or a file with another
\* extension; and discovery has left every file as it was.
C20_DiscoveryConsidersFiles ==
    pc # "start" =>
        /\ \A n \in DOMAIN initial : Candidate(n) => GroupShown(n)
        /\ \A i \in DOMAIN pairs :
             /\ Candidate(pairs[i].left) /\ MatchesSide(pairs[i].left, "L")
             /\ Candidate(pairs[i].right) /\ MatchesSide(pairs[i].right, "R")
        /\ \A i \in DOMAIN log_lines :
             \E n \in DOMAIN initial : Candidate(n) /\ IsPrefix(log_lines[i].key, n)
        /\ fs = initial

\* the checks of _merge_to_stereo pass on a pair: both files decode (215-216),
\* the decoded segments agree in frame rate, sample width and length (217-220)
\* and interleave (222)
PassesChecks(p) ==
    /\ BothReadable(p)
    /\ LET l == Decode(fs[p.left])
           r == Decode(fs[p.right])
       IN  /\ l.rate = r.rate /\ l.width = r.width
           /\ MsLen(l) = MsLen(r)
           /\ l.ch = 1 /\ r.ch = 1 /\ l.frames = r.frames

\* the current pair's merge has returned and its stereo output is in the folder
WriteSucceeded ==
    /\ raised[index] = ""
    /\ (Current.key \o Current.ext) \in DOMAIN fs
    /\ fs[Current.key \o Current.ext].kind = "audio"
    /\ fs[Current.key \o Current.ext].ch = 2

\* C21: discovery runs once, on the folder as it was at the start and before
\* any pair is processed, and the list of pairs never changes afterwards; a
\* step writes a file only as the merge step of the current pair, after both
\* sources were read and passed the checks; a step removes a file only as a
\* delete step of the current pair, after that pair's merge has returned with
\* its output written.
C21_StepOrder ==
    /\ [](pc = "start" => (fs = initial /\ pairs = <<>> /\ raised = <<>>))
    /\ [][pc # "start" => pairs' = pairs]_vars
    /\ [][\A n \in DOMAIN fs' :
            Written(n) => (pc = "merge" /\ PassesChecks(Current))]_vars
    /\ [][\A n \in DOMAIN fs \ DOMAIN fs' :
            /\ pc \in {"delete", "unlink_right"}
            /\ n \in {Current.left, Current.right}
            /\ WriteSucceeded]_vars

\* the second pair of a batch has been merged and has lost its left source,
\* after the first pair failed its checks
C21_Witness ==
    /\ pc = "unlink_right" /\ index = 2
    /\ raised[1] \in {"decode", "parameters", "mono"}
    /\ Current.left \notin DOMAIN fs
    /\ Current.right \in DOMAIN fs
    /\ WriteSucceeded

\* n is a file of a group that discovery reports as missing its L or its R
Lone(n) ==
    /\ n \in DOMAIN initial
    /\ IsFile(initial, n)
    /\ Classified[n].ch # ""
    /\ ~GroupComplete(<<Classified[n].key, Classified[n].ext>>)

\* C22: a file of a group reported as missing its counterpart is no source of
\* any candidate pair, no step of the batch overwrites or deletes it, and it
\* is in the folder with its initial content when the batch ends.
C22_LoneFilesExcluded ==
    /\ [](\A n \in DOMAIN initial : Lone(n) =>
            \A i \in DOMAIN pairs : n \notin {pairs[i].left, pairs[i].right})
    /\ [][\A n \in DOMAIN fs : Lone(n) => (n \in DOMAIN fs' /\ fs'[n] = fs[n])]_vars
    /\ [](pc = "done" =>
            \A n \in DOMAIN initial : Lone(n) => (n \in DOMAIN fs /\ fs[n] = initial[n]))

\* a name that is neither a source nor the output of any candidate pair
Bystander(n) ==
    \A i \in DOMAIN pairs :
        n \notin {pairs[i].left, pairs[i].right, pairs[i].key \o pairs[i].ext}

\* C25: a step of the batch creates or overwrites a file only at <key><ext> of
\* the pair it is on, and removes a file only if it is a source of the pair it
\* is on, that pair's merge has succeeded and the switch was on when the
\* worker consulted it; every file that is neither a source nor the output of
\* a candidate pair keeps its initial content throughout.
C25_OnlyPairFilesTouched ==
    /\ [][\A n \in DOMAIN fs' :
            Written(n) => (pc = "merge" /\ n = Current.key \o Current.ext)]_vars
    /\ [][\A n \in DOMAIN fs \ DOMAIN fs' :
            /\ n \in {Current.left, Current.right}
            /\ WriteSucceeded
            /\ \/ pc = "delete" /\ delete_sources
               \/ pc = "unlink_right" /\ del_flag]_vars
    /\ [](pc # "start" =>
            \A n \in DOMAIN initial :
                Bystander(n) => (n \in DOMAIN fs /\ fs[n] = initial[n]))

\* a batch has merged its one pair and deleted the sources, next to a file
\* that belongs to no pair
C25_Witness ==
    /\ pc = "done"
    /\ Len(pairs) = 1
    /\ raised[1] = "" /\ SourcesGone(pairs[1])
    /\ (pairs[1].key \o pairs[1].ext) \in DOMAIN fs
    /\ \E n \in DOMAIN initial : Bystander(n) /\ n \in DOMAIN fs

\* C28: discovery ends the worker exactly when no group of the folder has both
\* an L and an R file; the step that ends it sets the status to "No .L/.R
\* pairs found." and leaves the folder and the progress as they were; from
\* then on the worker takes no step, so the folder stays as it was at the
\* start, the progress stays 0 of 0, no pair is reported merged or failed and
\* the status never becomes "Stereo merge completed.".
C28_NoPairsStops ==
    /\ [](pc # "start" => (pc = "stopped" <=> \A g \in Groups : ~GroupComplete(g)))
    /\ [][(pc = "start" /\ pc' = "stopped") =>
            /\ status' = "No .L/.R pairs found."
            /\ fs' = fs
            /\ progress' = progress]_vars
    /\ [][pc = "stopped" => pc' = "stopped"]_vars
    /\ [](pc = "stopped" =>
            /\ fs = initial
            /\ pairs = <<>>
            /\ progress = <<0, 0>>
            /\ \A n \in DOMAIN emitted : emitted[n].kind = "Skipping"
            /\ status # "Stereo merge completed.")

\* the worker has stopped on a folder with files of one-sided groups only
C28_Witness ==
    /\ pc = "stopped"
    /\ status = "No .L/.R pairs found."
    /\ Len(emitted) = 2
    /\ fs = initial
    /\ Cardinality(DOMAIN fs) = 3

----------------------------------------------------------------------------
(* Properties of the output paths *)

\* C26: after discovery, two different candidate pairs have different output
\* names: a pair stands for one group (key, extension), no two pairs stand for
\* the same group, and <key><ext> tells the groups apart.
C26_OutputNamesDistinct ==
    \A i, j \in DOMAIN pairs :
        i # j => /\ <<pairs[i].key, pairs[i].ext>> # <<pairs[j].key, pairs[j].ext>>
                 /\ OutputName(pairs[i]) # OutputName(pairs[j])

\* discovery has found two pairs with the same key and different extensions
C26_Witness ==
    /\ pc = "merge"
    /\ Len(pairs) = 2
    /\ pairs[1].key = pairs[2].key
    /\ pairs[1].ext # pairs[2].ext

\* C27: the output name of a candidate pair is neither its left nor its right
\* source name.
C27_OutputIsNoSource ==
    \A i \in DOMAIN pairs :
        /\ OutputName(pairs[i]) # pairs[i].left
        /\ OutputName(pairs[i]) # pairs[i].right

\* discovery has found a pair whose key is the name of one source with more
\* than the trailing channel suffix removed
C27_Witness ==
    /\ pc = "merge"
    /\ \E i \in DOMAIN pairs :
         /\ pairs[i].left = N_aLwL
         /\ OutputName(pairs[i]) \in DOMAIN fs

----------------------------------------------------------------------------
(* Properties of the Start button *)

\* C23: the delete-sources choice of a batch is the switch as it was when
\* Start was pressed: for every pair the worker acts on that value, so a pair
\* that merged has lost both sources if the switch was on at Start and has
\* kept both if it was off, whatever the user does to the switch meanwhile.
C23_DeleteChoiceFixedAtStart ==
    /\ [][pc = "delete" => del_flag' = delete_at_start]_vars
    /\ []((pc = "progress" /\ raised[index] = "") =>
            IF delete_at_start THEN SourcesGone(Current) ELSE SourcesPresent(Current))

\* the worker threads of this screen that still have steps to take
ActiveWorkers == (IF Active(pc) THEN 1 ELSE 0) + BagCardinality(others)

\* C24: at most one worker thread of the screen is running at any time, so a
\* press of Start while a batch runs starts no second worker on the folder.
C24_OneBatchAtATime == ActiveWorkers <= 1

\* the source field is empty once stripped
Blank(text) == \A i \in DOMAIN text : text[i] = " "

\* the source field names something that is no folder
NoFolder(text) == ~Blank(text) /\ PathKind(ExpandUser(Strip(text))) # "dir"

ErrorStatuses ==
    {"Missing dependency: pydub.", "Missing dependency: ffmpeg.",
     "Source folder is required.", "Source folder not found."}

\* C29: a press of Start when pydub or ffmpeg is missing, when the source field
\* is empty, or when it names no existing folder launches no worker and
\* touches no file; it sets an error status and leaves the log, the progress
\* and every worker that runs as they were.
C29_BadStartLaunchesNothing ==
    [][\A text \in RawInputs :
         (RunScriptWith(text) /\ (deps # Tools \/ Blank(text) \/ NoFolder(text))) =>
            /\ status' \in ErrorStatuses
            /\ launched' = launched
            /\ others' = others
            /\ <<pc, pairs, index, exc, raised, emitted>>' = <<pc, pairs, index, exc, raised, emitted>>
            /\ fs' = fs
            /\ log_lines' = log_lines
            /\ progress' = progress]_vars

\* Start was refused for want of a folder while a batch was running: the
\* lines it has logged and its progress are still shown
C29_Witness ==
    /\ status = "Source folder not found."
    /\ Active(pc)
    /\ launched = 1
    /\ Len(log_lines) = 1
    /\ progress = <<0, 1>>

====
